---- MODULE Spec2Model ----
(***************************************************************************)
(* State-machine model of the drawing engine of screendrawing.py           *)
(* (class ScreenDrawing and the text-entry widget FloatingTextInput).      *)
(*                                                                         *)
(* Raster surfaces (QPixmap) are heap objects: a surface is an identifier  *)
(* into `heap`, which maps each live identifier to its pixels.  Painting   *)
(* on a surface changes heap[id] in place, QPixmap.copy() allocates a new  *)
(* identifier, so aliasing between the canvas and a stored snapshot is     *)
(* observable.  Pixels are sampled on one screen column at the rows Ys;    *)
(* a pixel is its alpha channel (0 = fully transparent, 255 = opaque).     *)
(***************************************************************************)
EXTENDS Integers, Sequences, FiniteSets, TLC

\* ------------------------------------------------------------------------
\*  Program constants
\* ------------------------------------------------------------------------
TOOLBAR_HEIGHT == 58
MAX_UNDO_STEPS == 50
DefaultWidth   == 4
OpaqueAlpha    == 255
HlAlpha        == 128
\* QSpinBox.setRange(1, 120) and the range test of _load_settings
DefaultFontSize == 24
MinWidth       == 1
MaxWidth       == 120

\* ------------------------------------------------------------------------
\*  Bounds of the model
\* ------------------------------------------------------------------------
\* rows sampled below the toolbar band (the band's last row is sampled too)
MaxRow   == 2
\* distance in pixels between two sampled rows
RowGap   == 3
\* pushes onto the history stack allowed in one run of Spec
MaxPush  == 2
\* points of a freehand path kept by the model
MaxPath  == 2
\* characters typed into one text entry
MaxText  == 1
\* pushes onto the history stack allowed in one run of KeySpec or LoadSpec
KeyPush  == 1
\* sessions beyond the history capacity explored by DeepSpec
DeepExtra == 2

\* a layer that does not exist; surfaces are numbered from 1
None == 0

Tools      == {"pen", "rect", "ellipse", "line", "arrow", "text"}
ShapeTools == {"rect", "ellipse", "line", "arrow"}
Buttons    == {"left", "right"}

\* sampled rows: the last row of the toolbar band and MaxRow rows below it
Ys  == {TOOLBAR_HEIGHT + k * RowGap : k \in 0..MaxRow}
Pts == {[x |-> 0, y |-> yy] : yy \in Ys}
NullPoint == [x |-> 0, y |-> 0]
OffScreen == [x |-> -100, y |-> -100]

\* characters of a text entry: a glyph, a blank, a line break
Chars == {"a", " ", "\n"}

Min(a, b) == IF a <= b THEN a ELSE b
Max(a, b) == IF a >= b THEN a ELSE b
Last(s)   == s[Len(s)]
Front(s)  == SubSeq(s, 1, Len(s) - 1)

\* ------------------------------------------------------------------------
\*  Raster surface primitives
\* ------------------------------------------------------------------------
\* QPixmap.fill(Qt.transparent)
Transparent == [q \in Ys |-> 0]

\* source-over blend of source alpha sa onto destination alpha da
Over(sa, da) == sa + (da * (OpaqueAlpha - sa)) \div OpaqueAlpha

\* rows touched by a stroke or region between rows of a and b, widened by halo
Span(a, b, halo) ==
    {q \in Ys : Min(a.y, b.y) - halo <= q /\ q <= Max(a.y, b.y) + halo}

\* the composition mode left at SourceOver: the black brush is painted
ClearRows_paintsBlack(px, S) ==
    [q \in Ys |-> IF q \in S THEN OpaqueAlpha ELSE px[q]]

\* CompositionMode_Clear over the rows S
ClearRows(px, S) == [q \in Ys |-> IF q \in S THEN 0 ELSE px[q]]

\* CompositionMode_SourceOver of ink with alpha a over the rows S
InkRows(px, S, a) == [q \in Ys |-> IF q \in S THEN Over(a, px[q]) ELSE px[q]]

\* QPainter.drawPixmap(0, 0, layer) onto px
Composite(px, layer) == [q \in Ys |-> Over(layer[q], px[q])]

\* rows covered by QPainter.drawPath(path) with a pen of width w
RECURSIVE PathRows(_, _)
PathRows(p, w) ==
    IF Len(p) < 2 THEN {}
    ELSE Span(p[1], p[2], w \div 2) \cup PathRows(Tail(p), w)

\* ------------------------------------------------------------------------
\*  Text trimming: text.strip('\n').rstrip()
\* ------------------------------------------------------------------------
RECURSIVE LStripNL(_)
LStripNL(s) == IF s # <<>> /\ Head(s) = "\n" THEN LStripNL(Tail(s)) ELSE s

RECURSIVE RStripNL(_)
RStripNL(s) == IF s # <<>> /\ Last(s) = "\n" THEN RStripNL(Front(s)) ELSE s

RECURSIVE RStrip(_)
RStrip(s) == IF s # <<>> /\ Last(s) \in {" ", "\n"} THEN RStrip(Front(s)) ELSE s

Trim(s) == RStrip(RStripNL(LStripNL(s)))

\* text.split('\n'): index (from 0) of the line each character sits on
LineOf(s, i) == Cardinality({j \in 1..(i - 1) : s[j] = "\n"})

\* rows inked by drawText of every line of s, first baseline at pos
TextRows(s, pos, line_height) ==
    {q \in Ys : \E i \in 1..Len(s) :
        s[i] = "a" /\ q = pos.y + LineOf(s, i) * line_height}

\* ------------------------------------------------------------------------
\*  Heap of raster surfaces
\* ------------------------------------------------------------------------
\* identifier of a newly created surface: the least one not in use
Fresh(h) ==
    CHOOSE n \in 1..(Cardinality(DOMAIN h) + 1) :
        n \notin DOMAIN h /\ \A m \in 1..(n - 1) : m \in DOMAIN h

Alloc(h, px) ==
    [i \in DOMAIN h \cup {Fresh(h)} |-> IF i = Fresh(h) THEN px ELSE h[i]]

\* paint on the surface id in place
Paint(h, id, px) == [h EXCEPT ![id] = px]

Range(s) == {s[i] : i \in 1..Len(s)}

\* surfaces the widget still refers to
Roots(w) ==
    {w.canvas} \cup Range(w.undo_stack)
        \cup ({w.hl_layer, w.pen_layer} \ {None})

\* surfaces nothing refers to any more are freed (reference counting)
Collect(w) == [w EXCEPT !.heap = [i \in Roots(w) |-> w.heap[i]]]

\* pixels of the live canvas and of the stored snapshots, oldest first
CanvasPx(w) == w.heap[w.canvas]
StackPx(w)  == [i \in 1..Len(w.undo_stack) |-> w.heap[w.undo_stack[i]]]

\* ------------------------------------------------------------------------
\*  ScreenDrawing: construction
\* ------------------------------------------------------------------------
\* QFont("Sans", 24) and QColor(255, 50, 50)
DefaultFont  == [family |-> "Sans", size |-> DefaultFontSize]
DefaultColor == "#ff3232"

\* self._text_input = None: no text entry is open.  An open entry holds its
\* position, font and colour; aliased tells that its _font is the very
\* object the widget's text_font refers to
NoInput == [open |-> FALSE, pos |-> NullPoint, text |-> <<>>,
            font |-> DefaultFont, color |-> DefaultColor, aliased |-> FALSE]

\* init_window and init_variables, with no settings file
init_variables ==
    [ current_tool |-> "pen",
      pen_color    |-> DefaultColor,
      pen_width    |-> DefaultWidth,
      text_font    |-> DefaultFont,
      fill_enabled |-> FALSE,
      highlighter  |-> FALSE,
      eraser       |-> FALSE,
      drawing      |-> FALSE,
      start_point  |-> NullPoint,
      end_point    |-> NullPoint,
      path         |-> <<>>,
      cursor_pos   |-> OffScreen,
      hl_layer     |-> None,
      pen_layer    |-> None,
      text_input   |-> NoInput,
      undo_stack   |-> <<>>,
      temp_eraser  |-> FALSE,
      temp_line    |-> FALSE,
      saved_tool   |-> "pen",
      canvas       |-> 1,
      heap         |-> [i \in {1} |-> Transparent],
      npush        |-> 0,
      running      |-> TRUE ]

\* ------------------------------------------------------------------------
\*  ScreenDrawing: the settings file
\* ------------------------------------------------------------------------
\* a JSON value of the settings record: t is its type ("absent" when the key
\* is missing), b, n, s its value as a boolean, an integer, a string
JBool(b) == [t |-> "bool", b |-> b, n |-> 0, s |-> ""]
JInt(n)  == [t |-> "int", b |-> FALSE, n |-> n, s |-> ""]
JStr(s)  == [t |-> "str", b |-> FALSE, n |-> 0, s |-> s]
JAbsent  == [t |-> "absent", b |-> FALSE, n |-> 0, s |-> ""]
\* a JSON object or array with members, as the value of a key
JObj     == [t |-> "obj", b |-> FALSE, n |-> 0, s |-> ""]

\* bool(x) of Python
Truthy(j) ==
    CASE j.t = "bool" -> j.b
      [] j.t = "int"  -> j.n # 0
      [] j.t = "str"  -> j.s # ""
      [] j.t = "obj"  -> TRUE
      [] OTHER        -> FALSE

\* isinstance(x, int): bool is a subclass of int, True counts as 1
IsInt(j) == j.t \in {"int", "bool"}
IntOf(j) == IF j.t = "bool" THEN (IF j.b THEN 1 ELSE 0) ELSE j.n

\* the states of the settings file
ToolVals  == {JAbsent, JStr("text"), JStr("rect"), JStr("brush"), JInt(3)}
WidthVals == {JAbsent, JInt(0), JInt(1), JInt(10), JInt(120), JInt(121),
              JStr("4"), JBool(TRUE)}
FlagVals  == {JAbsent, JBool(TRUE), JBool(FALSE), JStr("no"), JInt(0)}
ColorVals == {JAbsent, JStr("#ff3232"), JObj}
NoData    == [tool |-> JAbsent, color |-> JAbsent, width |-> JAbsent,
              fill |-> JAbsent, highlight |-> JAbsent]
SettingsFiles ==
    {[kind |-> k, data |-> NoData] : k \in {"missing", "garbled", "array"}}
    \cup {[kind |-> "object",
           data |-> [tool |-> t, color |-> c, width |-> wd,
                     fill |-> f, highlight |-> h]] :
              t \in ToolVals, c \in ColorVals, wd \in WidthVals,
              f \in {JAbsent, JBool(TRUE), JStr("no")}, h \in FlagVals}

\* _load_settings: open() raises on a missing file, json.load on a file that
\* is not JSON, data.get on a value that is not an object, QColor() on a
\* value that is neither a string nor a number; the except clause ends the
\* load where it stands, what was assigned before stays assigned
load_settings(w, file) ==
    IF file.kind # "object" THEN w
    ELSE LET d  == file.data
             w1 == IF d.tool.t = "str" /\ d.tool.s \in Tools
                   THEN [w EXCEPT !.current_tool = d.tool.s] ELSE w
             wc == IF d.color.t = "str"
                   THEN [w1 EXCEPT !.pen_color = d.color.s] ELSE w1
             w2 == IF IsInt(d.width) /\ MinWidth <= IntOf(d.width)
                                     /\ IntOf(d.width) <= MaxWidth
                   THEN [wc EXCEPT !.pen_width = IntOf(d.width)] ELSE wc
         IN  IF d.color.t = "obj" THEN w1
             ELSE [w2 EXCEPT !.fill_enabled = Truthy(d.fill),
                             !.highlighter  = Truthy(d.highlight)]

\* ScreenDrawing(): init_variables calls _load_settings, then sets the
\* session state; _saved_tool starts as the loaded tool
Construct(file) ==
    LET w == load_settings(init_variables, file)
    IN  [w EXCEPT !.saved_tool = w.current_tool]

\* ------------------------------------------------------------------------
\*  ScreenDrawing: history
\* ------------------------------------------------------------------------
\* _push_undo with `>=` for `>`: eviction one entry early
push_undo_evictsEarly(w) ==
    LET id == Fresh(w.heap)
        w1 == [w EXCEPT !.heap = Alloc(w.heap, CanvasPx(w)),
                        !.undo_stack = Append(w.undo_stack, id),
                        !.npush = w.npush + 1]
    IN  IF Len(w1.undo_stack) >= MAX_UNDO_STEPS
        THEN Collect([w1 EXCEPT !.undo_stack = Tail(w1.undo_stack)])
        ELSE w1

\* _push_undo with pop() for pop(0): the newest entry is evicted
push_undo_evictsNewest(w) ==
    LET id == Fresh(w.heap)
        w1 == [w EXCEPT !.heap = Alloc(w.heap, CanvasPx(w)),
                        !.undo_stack = Append(w.undo_stack, id),
                        !.npush = w.npush + 1]
    IN  IF Len(w1.undo_stack) > MAX_UNDO_STEPS
        THEN Collect([w1 EXCEPT !.undo_stack = Front(w1.undo_stack)])
        ELSE w1

\* _push_undo without .copy(): the canvas itself is put on the stack
push_undo_noCopy(w) ==
    LET w1 == [w EXCEPT !.undo_stack = Append(w.undo_stack, w.canvas),
                        !.npush = w.npush + 1]
    IN  IF Len(w1.undo_stack) > MAX_UNDO_STEPS
        THEN Collect([w1 EXCEPT !.undo_stack = Tail(w1.undo_stack)])
        ELSE w1

\* npush counts the calls of _push_undo since construction
push_undo(w) ==
    LET id == Fresh(w.heap)
        w1 == [w EXCEPT !.heap = Alloc(w.heap, CanvasPx(w)),
                        !.undo_stack = Append(w.undo_stack, id),
                        !.npush = w.npush + 1]
    IN  IF Len(w1.undo_stack) > MAX_UNDO_STEPS
        THEN Collect([w1 EXCEPT !.undo_stack = Tail(w1.undo_stack)])
        ELSE w1

\* undo that pops the snapshot and does not install it
undo_dropsSnapshot(w) ==
    IF w.undo_stack # <<>>
    THEN Collect([w EXCEPT !.undo_stack = Front(w.undo_stack)])
    ELSE w

\* undo without the emptiness test: pop() on an empty list raises
undo_unguarded(w) ==
    IF w.undo_stack # <<>>
    THEN Collect([w EXCEPT !.canvas = Last(w.undo_stack),
                           !.undo_stack = Front(w.undo_stack)])
    ELSE [w EXCEPT !.running = FALSE]

undo(w) ==
    IF w.undo_stack # <<>>
    THEN Collect([w EXCEPT !.canvas = Last(w.undo_stack),
                           !.undo_stack = Front(w.undo_stack)])
    ELSE w

\* clear_canvas that fills first and takes the snapshot afterwards
clear_canvas_pushAfter(w) ==
    push_undo([w EXCEPT !.heap = Paint(w.heap, w.canvas, Transparent)])

clear_canvas(w) ==
    LET w1 == push_undo(w)
    IN  [w1 EXCEPT !.heap = Paint(w1.heap, w1.canvas, Transparent)]

\* save_snapshot in which a failed write ends the program
save_snapshot_fatal(w, ok) == IF ok THEN w ELSE [w EXCEPT !.running = FALSE]

\* save_snapshot writes the canvas to a PNG file and shows a notice for two
\* seconds; ok tells whether QPixmap.save could write the file, which the
\* code does not look at
save_snapshot(w, ok) == w

\* force_exit: the settings are written and the event loop ends
force_exit(w) == [w EXCEPT !.running = FALSE]

\* ------------------------------------------------------------------------
\*  ScreenDrawing: tool state
\* ------------------------------------------------------------------------
set_tool(w, tool) ==
    [w EXCEPT !.current_tool = tool,
              !.eraser = IF w.eraser /\ ~w.temp_eraser THEN FALSE ELSE w.eraser]

\* text_font.setPointSize(val): the QFont object is changed in place, and
\* with it the font of an open text entry that refers to the same object
setPointSize(w, val) ==
    [w EXCEPT !.text_font.size = val,
              !.text_input.font.size =
                  IF w.text_input.open /\ w.text_input.aliased THEN val ELSE @]

\* set_width is the slot of the spin box's valueChanged signal
set_width(w, val) == setPointSize([w EXCEPT !.pen_width = val], val)

\* a spin box without setRange: the value goes through as given
width_spin_unbounded(val) == val

\* QSpinBox.setValue and the user's edits: the value is forced into the range
width_spin(val) == Max(MinWidth, Min(MaxWidth, val))

\* the quick-size buttons carry the sizes 10, 16, 24 and 36
QuickSizes == {10, 16, 24, 36}

\* quick_size: the width is set, then the spin box (which shows the width
\* so far) takes the size and, when its value changes, signals set_width
quick_size(w, size) ==
    LET w1 == [w EXCEPT !.pen_width = size]
        w2 == IF width_spin(size) # w.pen_width
              THEN set_width(w1, width_spin(size)) ELSE w1
    IN  setPointSize(w2, size)

\* select_color: the colour dialog returns a colour, invalid when cancelled
select_color(w, color, valid) ==
    IF valid THEN [w EXCEPT !.pen_color = color] ELSE w

\* select_font: the font dialog returns a new font object and ok
select_font(w, font, ok) ==
    IF ok THEN [w EXCEPT !.text_font = font, !.text_input.aliased = FALSE]
    ELSE w

toggle_fill(w) == [w EXCEPT !.fill_enabled = ~w.fill_enabled]

toggle_highlighter(w) == [w EXCEPT !.highlighter = ~w.highlighter]

toggle_eraser(w) == [w EXCEPT !.eraser = ~w.eraser]

\* alpha of the colour get_pen and get_brush use
PenAlpha(w) == IF w.highlighter THEN HlAlpha ELSE OpaqueAlpha

\* get_pen without the test for a filled highlighter shape
get_pen_keepsOutline(w, for_line) == PenAlpha(w)

\* get_pen: the alpha of the pen, 0 for Qt.NoPen
get_pen(w, for_line) ==
    IF /\ w.highlighter
       /\ w.fill_enabled
       /\ w.current_tool \in {"rect", "ellipse"}
       /\ ~w.eraser
       /\ ~for_line
    THEN 0
    ELSE PenAlpha(w)

\* get_brush: the alpha of the brush, 0 for Qt.NoBrush
get_brush(w) ==
    IF w.fill_enabled /\ w.current_tool \in {"rect", "ellipse", "arrow"} /\ ~w.eraser
    THEN PenAlpha(w)
    ELSE 0

\* ------------------------------------------------------------------------
\*  Text entry
\* ------------------------------------------------------------------------
\* QFontMetrics(font).height(): in proportion to the point size, the
\* default font's lines one sampled row apart, so that a second line of
\* text lands on a sampled row
LineHeight(font) == (font.size * RowGap) \div DefaultFontSize

destroy_input(w) == [w EXCEPT !.text_input = NoInput]

\* FloatingTextInput(self, pos, font, color) with an empty document
open_text_input(w, pos) ==
    [destroy_input(w) EXCEPT !.text_input =
        [open |-> TRUE, pos |-> pos, text |-> <<>>,
         font |-> w.text_font, color |-> w.pen_color, aliased |-> TRUE]]

\* _commit_text with the snapshot taken after the text is drawn
commit_text_pushAfter(w) ==
    IF ~w.text_input.open THEN w
    ELSE LET text == Trim(w.text_input.text)
             pos  == w.text_input.pos
             font == w.text_input.font
             w1   == destroy_input(w)
         IN  IF text = <<>> THEN w1
             ELSE push_undo([w1 EXCEPT !.heap =
                     Paint(w1.heap, w1.canvas,
                           InkRows(CanvasPx(w1), TextRows(text, pos, LineHeight(font)),
                                   OpaqueAlpha))])

\* _commit_text without the early return on empty text: the push is made
commit_text_pushesEmpty(w) ==
    IF ~w.text_input.open THEN w
    ELSE LET text == Trim(w.text_input.text)
             pos  == w.text_input.pos
             font == w.text_input.font
             w2   == push_undo(destroy_input(w))
         IN  [w2 EXCEPT !.heap =
                 Paint(w2.heap, w2.canvas,
                       InkRows(CanvasPx(w2), TextRows(text, pos, LineHeight(font)),
                               OpaqueAlpha))]

commit_text(w) ==
    IF ~w.text_input.open THEN w
    ELSE LET text == Trim(w.text_input.text)
             pos  == w.text_input.pos
             font == w.text_input.font
             w1   == destroy_input(w)
             w2   == push_undo(w1)
         IN  IF text = <<>> THEN w1
             ELSE [w2 EXCEPT !.heap =
                     Paint(w2.heap, w2.canvas,
                           InkRows(CanvasPx(w2), TextRows(text, pos, LineHeight(font)),
                                   OpaqueAlpha))]

\* QTextEdit's own key handling: the character is added to the document
input_type(w, c) ==
    [w EXCEPT !.text_input.text = Append(w.text_input.text, c)]

\* FloatingTextInput.keyPressEvent, Ctrl+Enter: editingFinished
input_enter(w) == commit_text(w)

\* Escape without setPlainText(""): the typed text is confirmed
input_escape_keepsText(w) == commit_text(w)

\* FloatingTextInput.keyPressEvent, Escape: the document is emptied first
input_escape(w) == commit_text([w EXCEPT !.text_input.text = <<>>])

\* ------------------------------------------------------------------------
\*  draw_arrow and draw_hl_line: rows they paint
\* ------------------------------------------------------------------------
\* draw_arrow returns early when start == end (on one column the length is
\* at least 1 otherwise); the body and head polygons, drawn without a pen,
\* reach from start to end
ArrowRows(w, s, e) ==
    IF s = e THEN {} ELSE Span(s, e, 0)

\* the arrow painted with the brush the fill toggle decides
draw_arrow_brush_fromFill(w) == get_brush(w)

\* draw_arrow sets its own brush, QBrush(color), and no pen: the alpha the
\* two polygons are filled with, whatever the painter's brush was before
draw_arrow_brush(w) == PenAlpha(w)

\* rows of the round cap drawn about the end point p of a line
CapRows(w, p) == Span(p, p, w.pen_width \div 2)

\* CompositionMode_DestinationIn with alpha a: every alpha of the buffer is
\* multiplied by a / 255
DestinationIn(buf, a) == [q \in Ys |-> (buf[q] * a) \div OpaqueAlpha]

\* a round-capped line drawn straight onto the canvas with the translucent
\* pen, body and caps blended one after the other
draw_hl_line_direct(w, px, s, e) ==
    InkRows(InkRows(InkRows(px, Span(s, e, 0), HlAlpha),
                    CapRows(w, s), HlAlpha),
            CapRows(w, e), HlAlpha)

\* draw_hl_line: body and caps are drawn opaque into a transparent buffer
\* (the bounding box inflated by pen_width // 2 + 2, never empty), the
\* buffer's alpha is scaled to 128, and the buffer is drawn on px
draw_hl_line(w, px, s, e) ==
    LET body == InkRows(Transparent, Span(s, e, 0), OpaqueAlpha)
        cap1 == InkRows(body, CapRows(w, s), OpaqueAlpha)
        cap2 == InkRows(cap1, CapRows(w, e), OpaqueAlpha)
    IN  Composite(px, DestinationIn(cap2, HlAlpha))

\* math.sqrt of a perfect square
ISqrt(n) == CHOOSE r \in 0..n : r * r <= n /\ n < (r + 1) * (r + 1)

\* head_len = max(pen_width * 3, 15)
HeadLen(width) == Max(width * 3, 15)

\* twice head_width = max(pen_width * 2.5, 12), to stay in the integers
HeadWidth2(width) == Max(width * 5, 24)

\* draw_arrow with the head length taken as three widths, the floor of 15
\* forgotten
draw_arrow_noMinimum(w, start, end) ==
    LET dx     == end.x - start.x
        dy     == end.y - start.y
        length == ISqrt(dx * dx + dy * dy)
        K      == 2 * length
        bel    == Max(0, length - w.pen_width * 3)
        bx     == K * start.x + 2 * bel * dx
        by     == K * start.y + 2 * bel * dy
        pw     == w.pen_width
        hw     == HeadWidth2(pw)
    IN  IF start = end \/ length < 1
        THEN [drawn |-> FALSE]
        ELSE [drawn |-> TRUE, scale |-> K, length |-> length,
              head_len |-> pw * 3, head_width2 |-> hw,
              body_end |-> [x |-> bx, y |-> by],
              p1 |-> [x |-> K * start.x - pw * dy, y |-> K * start.y + pw * dx],
              p2 |-> [x |-> K * start.x + pw * dy, y |-> K * start.y - pw * dx],
              p3 |-> [x |-> bx + 2 * pw * dy, y |-> by - 2 * pw * dx],
              p4 |-> [x |-> bx - 2 * pw * dy, y |-> by + 2 * pw * dx],
              h1 |-> [x |-> K * end.x, y |-> K * end.y],
              h2 |-> [x |-> bx - hw * dy, y |-> by + hw * dx],
              h3 |-> [x |-> bx + hw * dy, y |-> by - hw * dx]]

\* draw_arrow without the clamp of the body length at zero
draw_arrow_noClamp(w, start, end) ==
    LET dx     == end.x - start.x
        dy     == end.y - start.y
        length == ISqrt(dx * dx + dy * dy)
        K      == 2 * length
        bel    == length - HeadLen(w.pen_width)
        bx     == K * start.x + 2 * bel * dx
        by     == K * start.y + 2 * bel * dy
        pw     == w.pen_width
        hw     == HeadWidth2(pw)
    IN  IF start = end \/ length < 1
        THEN [drawn |-> FALSE]
        ELSE [drawn |-> TRUE, scale |-> K, length |-> length,
              head_len |-> HeadLen(pw), head_width2 |-> hw,
              body_end |-> [x |-> bx, y |-> by],
              p1 |-> [x |-> K * start.x - pw * dy, y |-> K * start.y + pw * dx],
              p2 |-> [x |-> K * start.x + pw * dy, y |-> K * start.y - pw * dx],
              p3 |-> [x |-> bx + 2 * pw * dy, y |-> by - 2 * pw * dx],
              p4 |-> [x |-> bx - 2 * pw * dy, y |-> by + 2 * pw * dx],
              h1 |-> [x |-> K * end.x, y |-> K * end.y],
              h2 |-> [x |-> bx - hw * dy, y |-> by + hw * dx],
              h3 |-> [x |-> bx + hw * dy, y |-> by - hw * dx]]

\* draw_arrow: the vertices of the body trapezoid (p1..p4) and of the head
\* triangle (h1..h3).  With length the distance from start to end,
\* cos(angle) = dx / length and sin(angle) = dy / length, the perpendicular
\* unit vector is (-dy, dx) / length.  Every coordinate is given times
\* scale = 2 * length, which makes it an integer; start and end are taken
\* at an integral distance, and the rounding of the floating-point
\* arithmetic is left out.
draw_arrow(w, start, end) ==
    LET dx     == end.x - start.x
        dy     == end.y - start.y
        length == ISqrt(dx * dx + dy * dy)
        K      == 2 * length
        bel    == Max(0, length - HeadLen(w.pen_width))
        bx     == K * start.x + 2 * bel * dx
        by     == K * start.y + 2 * bel * dy
        pw     == w.pen_width
        hw     == HeadWidth2(pw)
    IN  IF start = end \/ length < 1
        THEN [drawn |-> FALSE]
        ELSE [drawn |-> TRUE, scale |-> K, length |-> length,
              head_len |-> HeadLen(pw), head_width2 |-> hw,
              body_end |-> [x |-> bx, y |-> by],
              p1 |-> [x |-> K * start.x - pw * dy, y |-> K * start.y + pw * dx],
              p2 |-> [x |-> K * start.x + pw * dy, y |-> K * start.y - pw * dx],
              p3 |-> [x |-> bx + 2 * pw * dy, y |-> by - 2 * pw * dx],
              p4 |-> [x |-> bx - 2 * pw * dy, y |-> by + 2 * pw * dx],
              h1 |-> [x |-> K * end.x, y |-> K * end.y],
              h2 |-> [x |-> bx - hw * dy, y |-> by + hw * dx],
              h3 |-> [x |-> bx + hw * dy, y |-> by - hw * dx]]

\* ------------------------------------------------------------------------
\*  ScreenDrawing: pointer events
\* ------------------------------------------------------------------------
\* the band test with `<` for `<=`
InToolbar_strict(pos) == pos.y < TOOLBAR_HEIGHT

\* event.pos().y() <= TOOLBAR_HEIGHT
InToolbar(pos) == pos.y <= TOOLBAR_HEIGHT

\* mousePressEvent that starts the session without taking the snapshot
mousePressEvent_noPush(w, pos, button) ==
    IF InToolbar(pos) THEN w
    ELSE IF w.text_input.open THEN commit_text(w)
    ELSE IF button # "left" THEN w
    ELSE LET w1 == [w EXCEPT !.start_point = pos, !.end_point = pos]
             w3 == [w1 EXCEPT !.drawing = TRUE, !.path = <<pos>>]
         IN  IF w1.current_tool = "text" /\ ~w1.eraser
                 THEN open_text_input(w1, pos)
             ELSE IF w3.highlighter /\ w3.current_tool = "pen" /\ ~w3.eraser
                 THEN Collect([w3 EXCEPT !.hl_layer = Fresh(w3.heap),
                                         !.heap = Alloc(w3.heap, Transparent)])
             ELSE IF ~w3.highlighter /\ w3.current_tool = "pen" /\ ~w3.eraser
                 THEN Collect([w3 EXCEPT !.pen_layer = Fresh(w3.heap),
                                         !.heap = Alloc(w3.heap, Transparent)])
             ELSE w3

mousePressEvent(w, pos, button) ==
    IF InToolbar(pos) THEN w
    ELSE IF w.text_input.open THEN commit_text(w)
    ELSE IF button # "left" THEN w
    ELSE LET w1 == [w EXCEPT !.start_point = pos, !.end_point = pos]
             w2 == push_undo([w1 EXCEPT !.drawing = TRUE])
             w3 == [w2 EXCEPT !.path = <<pos>>]
         IN  IF w1.current_tool = "text" /\ ~w1.eraser
                 THEN open_text_input(w1, pos)
             ELSE IF w3.highlighter /\ w3.current_tool = "pen" /\ ~w3.eraser
                 THEN Collect([w3 EXCEPT !.hl_layer = Fresh(w3.heap),
                                         !.heap = Alloc(w3.heap, Transparent)])
             ELSE IF ~w3.highlighter /\ w3.current_tool = "pen" /\ ~w3.eraser
                 THEN Collect([w3 EXCEPT !.pen_layer = Fresh(w3.heap),
                                         !.heap = Alloc(w3.heap, Transparent)])
             ELSE w3

\* the freehand branches of mouseMoveEvent: the layer is emptied and the
\* whole path drawn again
RedrawLayer(w, layer, pos) ==
    IF layer = None THEN w
    ELSE LET path == Append(w.path, pos)
         IN  [w EXCEPT !.path = path,
                       !.heap = Paint(w.heap, layer,
                                      InkRows(Transparent,
                                              PathRows(path, w.pen_width),
                                              PenAlpha(w)))]

\* mouseMoveEvent whose eraser branch does not test the tool: the dab is
\* made in rectangle, ellipse, line and arrow sessions too
mouseMoveEvent_dabsInShapes(w, pos) ==
    LET w1 == [w EXCEPT !.cursor_pos = pos]
        w2 == [w1 EXCEPT !.end_point = pos]
    IN  IF ~w.drawing THEN w1
        ELSE IF w2.eraser
            THEN [w2 EXCEPT !.heap =
                    Paint(w2.heap, w2.canvas,
                          ClearRows(CanvasPx(w2),
                                    Span(pos, pos, w2.pen_width \div 2)))]
        ELSE IF w2.highlighter /\ w2.current_tool = "pen"
            THEN RedrawLayer(w2, w2.hl_layer, pos)
        ELSE IF w2.current_tool = "pen"
            THEN RedrawLayer(w2, w2.pen_layer, pos)
        ELSE w2

mouseMoveEvent(w, pos) ==
    LET w1 == [w EXCEPT !.cursor_pos = pos]
        w2 == [w1 EXCEPT !.end_point = pos]
    IN  IF ~w.drawing THEN w1
        ELSE IF w2.eraser /\ w2.current_tool \notin ShapeTools
            THEN [w2 EXCEPT !.heap =
                    Paint(w2.heap, w2.canvas,
                          ClearRows(CanvasPx(w2),
                                    Span(pos, pos, w2.pen_width \div 2)))]
        ELSE IF w2.highlighter /\ w2.current_tool = "pen"
            THEN RedrawLayer(w2, w2.hl_layer, pos)
        ELSE IF w2.current_tool = "pen"
            THEN RedrawLayer(w2, w2.pen_layer, pos)
        ELSE w2

\* the last branch of mouseReleaseEvent: the shape is drawn on the canvas.
\* drawRect and drawEllipse fill the interior with the brush and then stroke
\* the outline, half the pen's width to either side of the edge, with the
\* pen; the sampled column is the shape's left edge, so the brush covers the
\* rows from start to end and the pen the same rows and the halo.
FinalizeShape(w) ==
    LET s    == w.start_point
        e    == w.end_point
        half == w.pen_width \div 2
        tool == w.current_tool
        px   == CanvasPx(w)
        pen  == get_pen(w, tool \in {"line", "arrow"})
        erased == IF tool \in {"rect", "ellipse"} THEN Span(s, e, 0)
                  ELSE IF tool = "line" THEN Span(s, e, half)
                  ELSE IF tool = "arrow" THEN ArrowRows(w, s, e)
                  ELSE {}
        inked  == IF tool \in {"rect", "ellipse"}
                      THEN InkRows(InkRows(px, Span(s, e, 0), get_brush(w)),
                                   Span(s, e, half), pen)
                  ELSE IF tool = "line"
                      THEN (IF w.highlighter
                            THEN draw_hl_line(w, px, s, e)
                            ELSE InkRows(px, Span(s, e, half), pen))
                  ELSE IF tool = "arrow"
                      THEN InkRows(px, ArrowRows(w, s, e), draw_arrow_brush(w))
                  ELSE px
    IN  IF w.eraser
        THEN [w EXCEPT !.heap = Paint(w.heap, w.canvas, ClearRows(px, erased))]
        ELSE [w EXCEPT !.heap = Paint(w.heap, w.canvas, inked)]

\* mouseReleaseEvent without the early return when no session is active
mouseReleaseEvent_noSessionTest(w, pos) ==
    LET w1 == [w EXCEPT !.drawing = FALSE, !.end_point = pos]
    IN  IF w1.highlighter /\ w1.current_tool = "pen" /\ w1.hl_layer # None
            THEN Collect([w1 EXCEPT
                    !.heap = Paint(w1.heap, w1.canvas,
                                   Composite(CanvasPx(w1), w1.heap[w1.hl_layer])),
                    !.hl_layer = None])
        ELSE IF ~w1.highlighter /\ w1.current_tool = "pen" /\ w1.pen_layer # None
            THEN Collect([w1 EXCEPT
                    !.heap = Paint(w1.heap, w1.canvas,
                                   Composite(CanvasPx(w1), w1.heap[w1.pen_layer])),
                    !.pen_layer = None])
        ELSE IF ~w1.eraser \/ w1.current_tool \in ShapeTools
            THEN FinalizeShape(w1)
        ELSE w1

mouseReleaseEvent(w, pos) ==
    LET w1 == [w EXCEPT !.drawing = FALSE, !.end_point = pos]
    IN  IF ~w.drawing THEN w
        ELSE IF w1.highlighter /\ w1.current_tool = "pen" /\ w1.hl_layer # None
            THEN Collect([w1 EXCEPT
                    !.heap = Paint(w1.heap, w1.canvas,
                                   Composite(CanvasPx(w1), w1.heap[w1.hl_layer])),
                    !.hl_layer = None])
        ELSE IF ~w1.highlighter /\ w1.current_tool = "pen" /\ w1.pen_layer # None
            THEN Collect([w1 EXCEPT
                    !.heap = Paint(w1.heap, w1.canvas,
                                   Composite(CanvasPx(w1), w1.heap[w1.pen_layer])),
                    !.pen_layer = None])
        ELSE IF ~w1.eraser \/ w1.current_tool \in ShapeTools
            THEN FinalizeShape(w1)
        ELSE w1

\* ------------------------------------------------------------------------
\*  ScreenDrawing: keyboard events
\* ------------------------------------------------------------------------
Keys == {"Control", "Shift", "Escape", "Z", "S", "Q", "C"}

keyPressEvent(w, key, ctrl, ok) ==
    IF key = "Control" /\ ~w.drawing
        THEN [w EXCEPT !.temp_eraser = TRUE,
                       !.saved_tool = w.current_tool,
                       !.eraser = TRUE]
    ELSE IF key = "Shift" /\ ~w.drawing
        THEN [w EXCEPT !.temp_line = TRUE,
                       !.saved_tool = w.current_tool,
                       !.current_tool = "line"]
    ELSE IF key = "Escape"
        THEN (IF w.text_input.open THEN destroy_input(w) ELSE force_exit(w))
    ELSE IF key = "Z" /\ ctrl THEN undo(w)
    ELSE IF key = "S" /\ ctrl THEN save_snapshot(w, ok)
    ELSE IF key = "Q" /\ ctrl THEN force_exit(w)
    ELSE IF key = "C" /\ ~w.text_input.open THEN clear_canvas(w)
    ELSE w

keyReleaseEvent(w, key) ==
    IF key = "Control" /\ w.temp_eraser
        THEN [w EXCEPT !.temp_eraser = FALSE,
                       !.eraser = FALSE,
                       !.current_tool = w.saved_tool]
    ELSE IF key = "Shift" /\ w.temp_line
        THEN [w EXCEPT !.temp_line = FALSE,
                       !.current_tool = w.saved_tool]
    ELSE w

\* ------------------------------------------------------------------------
\*  The state machine
\* ------------------------------------------------------------------------
VARIABLES
    self,   \* the ScreenDrawing widget
    ev,     \* the event handled last: handler, input, and what it found
    hist    \* record of the pointer sessions and undos of a run

\* ------------------------------------------------------------------------
\*  ScreenDrawing: rendering
\* ------------------------------------------------------------------------
\* QColor(255, 80, 80, 120), the colour of the eraser's line and arrow preview
PreviewColor == "#78ff5050"

\* draw_hl_line called by paintEvent: its off-screen buffer is a surface of
\* its own, created, drawn on the widget and dropped at return; it paints
\* nothing on the surfaces the widget holds
preview_hl_line(w) ==
    Collect([w EXCEPT !.heap = Alloc(w.heap, Transparent)])

\* the preview of the shape being dragged, drawn on the widget with the
\* painter pv
preview_shape(w) ==
    IF w.current_tool = "line" /\ (w.eraser \/ w.highlighter)
        THEN preview_hl_line(w)
    ELSE w

\* paintEvent that leaves the preview colour in pen_color
paintEvent_noRestore(w) ==
    IF w.drawing /\ w.current_tool \in {"line", "arrow"} /\ w.eraser
    THEN preview_shape([w EXCEPT !.pen_color = PreviewColor])
    ELSE IF w.drawing /\ w.current_tool \in ShapeTools
    THEN preview_shape(w)
    ELSE w

\* paintEvent: canvas, transient layers, cursor preview and shape preview
\* are drawn on the widget, which is no part of the state; for the eraser's
\* preview of a line or arrow pen_color is set to the preview colour for
\* the call of draw_hl_line or draw_arrow and restored after it
paintEvent(w) ==
    IF w.drawing /\ w.current_tool \in {"line", "arrow"} /\ w.eraser
    THEN LET saved_color == w.pen_color
             w1 == preview_shape([w EXCEPT !.pen_color = PreviewColor])
         IN  [w1 EXCEPT !.pen_color = saved_color]
    ELSE IF w.drawing /\ w.current_tool \in ShapeTools
    THEN preview_shape(w)
    ELSE w

vars == <<self, ev, hist>>

\* the widget as constructed, the settings file naming the tool
Start(tool) ==
    [init_variables EXCEPT !.current_tool = tool, !.saved_tool = tool]

\* no Control or Shift episode on record
NoKeys == [held |-> {}, tool0 |-> "pen", eraser0 |-> FALSE, n |-> 0,
           ctrlOnly |-> TRUE, other |-> FALSE]

NoHist == [on |-> FALSE, ops |-> 0, undos |-> 0, pre |-> <<>>,
           base |-> Transparent, keys |-> NoKeys]

\* record of the Control/Shift episode in progress or just ended:
\*   held     - the keys that are down
\*   tool0, eraser0 - tool and eraser flag before the first press
\*   n        - key events of the episode, counted up to 3
\*   ctrlOnly - all of them were Control events
\*   other    - another event came in between, or a session was active
\* An event other than Control/Shift after the episode forgets it.
TrackKeys(ks, h, arg, w) ==
    LET mod == h \in {"keyPressEvent", "keyReleaseEvent"}
               /\ arg[1] \in {"Control", "Shift"}
        k   == arg[1]
    IN  IF mod /\ h = "keyPressEvent" /\ ks.held = {}
            THEN [held |-> {k}, tool0 |-> w.current_tool,
                  eraser0 |-> w.eraser, n |-> 1,
                  ctrlOnly |-> k = "Control", other |-> w.drawing]
        ELSE IF mod
            THEN [ks EXCEPT
                    !.held = IF h = "keyPressEvent" THEN @ \cup {k} ELSE @ \ {k},
                    !.n = Min(@ + 1, 3),
                    !.ctrlOnly = @ /\ k = "Control",
                    !.other = @ \/ w.drawing]
        ELSE IF ks.held # {} THEN [ks EXCEPT !.other = TRUE]
        ELSE NoKeys

\* hist after the handler h turned the widget w into w2:
\*   base  - the canvas when the session in progress (or the last one) began
\*   pre   - the canvas before each session, oldest first   (when on)
\*   ops   - sessions ended by a pointer-up                 (when on)
\*   undos - calls of undo                                   (when on)
Track(hs, h, w, w2) ==
    LET began == h = "mousePressEvent" /\ w2.drawing /\ w2.npush > w.npush
        ended == h = "mouseReleaseEvent" /\ w.drawing
        hs1   == IF began THEN [hs EXCEPT !.base = CanvasPx(w)] ELSE hs
    IN  IF ~hs.on THEN hs1
        ELSE [hs1 EXCEPT
                !.pre   = IF began THEN Append(hs.pre, CanvasPx(w)) ELSE hs.pre,
                !.ops   = IF ended THEN hs.ops + 1 ELSE hs.ops,
                !.undos = IF h = "undo" THEN hs.undos + 1 ELSE hs.undos]

Init ==
    /\ self = init_variables
    /\ ev = [h |-> "init", arg |-> <<>>, n |-> 0, input |-> NoInput]
    /\ hist = NoHist

\* one event: the handler h, given arg, turns the widget into w2
Do(h, arg, w2, limit) ==
    /\ self.running
    /\ w2.npush <= limit
    /\ Len(w2.path) <= MaxPath
    /\ self' = w2
    /\ ev' = [h |-> h, arg |-> arg, n |-> Len(self.undo_stack),
              input |-> self.text_input]
    /\ hist' = [Track(hist, h, self, w2) EXCEPT
                    !.keys = TrackKeys(hist.keys, h, arg, self)]

MousePress(pts, buttons, limit) ==
    \E p \in pts, b \in buttons :
        Do("mousePressEvent", <<p, b>>, mousePressEvent(self, p, b), limit)

MouseMove(pts, limit) ==
    \E p \in pts : Do("mouseMoveEvent", <<p>>, mouseMoveEvent(self, p), limit)

MouseRelease(pts, limit) ==
    \E p \in pts :
        Do("mouseReleaseEvent", <<p>>, mouseReleaseEvent(self, p), limit)

\* a key press; for Ctrl+S the outcome of the file write is drawn as well
KeyPress(keys, limit) ==
    \E k \in keys, c \in BOOLEAN :
        IF k = "S" /\ c
        THEN \E ok \in BOOLEAN :
                Do("keyPressEvent", <<k, c, ok>>,
                   keyPressEvent(self, k, c, ok), limit)
        ELSE Do("keyPressEvent", <<k, c>>, keyPressEvent(self, k, c, TRUE), limit)

KeyRelease(keys, limit) ==
    \E k \in keys :
        Do("keyReleaseEvent", <<k>>, keyReleaseEvent(self, k), limit)

\* the text entry has the keyboard focus
InputKey(chars, limit) ==
    /\ self.text_input.open
    /\ \/ \E c \in chars :
            /\ Len(self.text_input.text) < MaxText
            /\ Do("input_type", <<c>>, input_type(self, c), limit)
       \/ Do("input_enter", <<>>, input_enter(self), limit)
       \/ Do("input_escape", <<>>, input_escape(self), limit)

\* the toolbar buttons
SetTool(tools, limit) ==
    \E t \in tools : Do("set_tool", <<t>>, set_tool(self, t), limit)

SetWidth(vals, limit) ==
    \E v \in vals :
        Do("set_width", <<v>>, set_width(self, width_spin(v)), limit)

QuickSize(limit) ==
    \E z \in QuickSizes : Do("quick_size", <<z>>, quick_size(self, z), limit)

\* the colour and font dialogs, closed with a choice or cancelled
SelectColor(colors, limit) ==
    \E c \in colors, valid \in BOOLEAN :
        Do("select_color", <<c, valid>>, select_color(self, c, valid), limit)

SelectFont(fonts, limit) ==
    \E f \in fonts, ok \in BOOLEAN :
        Do("select_font", <<f, ok>>, select_font(self, f, ok), limit)

ToggleFill(limit) == Do("toggle_fill", <<>>, toggle_fill(self), limit)

ToggleHighlighter(limit) ==
    Do("toggle_highlighter", <<>>, toggle_highlighter(self), limit)

ToggleEraser(limit) == Do("toggle_eraser", <<>>, toggle_eraser(self), limit)

UndoButton(limit) == Do("undo", <<>>, undo(self), limit)

ClearButton(limit) == Do("clear_canvas", <<>>, clear_canvas(self), limit)

SaveButton(limit) ==
    \E ok \in BOOLEAN :
        Do("save_snapshot", <<ok>>, save_snapshot(self, ok), limit)

ExitButton(limit) == Do("force_exit", <<>>, force_exit(self), limit)

\* pointer positions: the first two sampled rows below the toolbar band, the
\* first of them alone, and these together with the band's last row
TwoRows == {p \in Pts : TOOLBAR_HEIGHT < p.y /\ p.y <= TOOLBAR_HEIGHT + 2 * RowGap}
FirstRow == {p \in Pts : p.y = TOOLBAR_HEIGHT + RowGap}
BandAndFirst == FirstRow \cup {p \in Pts : p.y = TOOLBAR_HEIGHT}
BandAndTwo == TwoRows \cup {p \in Pts : p.y = TOOLBAR_HEIGHT}

\* Pointer sessions, undo and clear in any order.  Control and Shift are
\* left out: what they do to the tool and the eraser flag, the toolbar
\* buttons do as well.
Next ==
    \/ MousePress(BandAndFirst, Buttons, MaxPush)
    \/ MouseMove(FirstRow, MaxPush)
    \/ MouseRelease(TwoRows, MaxPush)
    \/ KeyPress({"Z", "C"}, MaxPush)
    \/ SetTool({"pen", "rect"}, MaxPush)
    \/ ToggleEraser(MaxPush)
    \/ UndoButton(MaxPush)

Spec == Init /\ [][Next]_vars

\* Text entries: opened, typed into, confirmed, cancelled, with pen sessions
\* and undo in between.
TextNext ==
    \/ MousePress(BandAndTwo, Buttons, MaxPush)
    \/ MouseRelease(FirstRow, MaxPush)
    \/ InputKey(Chars, MaxPush)
    \/ KeyPress({"Escape", "Z"}, MaxPush)
    \/ SetTool({"text", "pen"}, MaxPush)
    \/ UndoButton(MaxPush)

TextSpec == Init /\ [][TextNext]_vars

\* Long runs: sessions with one shape tool, one after the other, until the
\* history has overflowed, then undos only.
DeepInit ==
    /\ \E t \in {"rect", "arrow"} : self = Start(t)
    /\ ev = [h |-> "init", arg |-> <<>>, n |-> 0, input |-> NoInput]
    /\ hist = [NoHist EXCEPT !.on = TRUE]

DeepNext ==
    \/ /\ hist.undos = 0
       /\ ~self.drawing
       /\ MousePress(FirstRow, {"left"}, MAX_UNDO_STEPS + DeepExtra)
    \/ /\ self.drawing
       /\ MouseRelease(TwoRows, MAX_UNDO_STEPS + DeepExtra)
    \/ /\ ~self.drawing
       /\ hist.undos < hist.ops
       /\ UndoButton(MAX_UNDO_STEPS + DeepExtra)

DeepSpec == DeepInit /\ [][DeepNext]_vars

\* Start-up from any settings file, then the toolbar's width controls and
\* toggles, with pointer sessions of the loaded tool.
LoadInit ==
    /\ \E f \in SettingsFiles :
          /\ self = Construct(f)
          /\ ev = [h |-> "_load_settings", arg |-> <<f>>, n |-> 0,
                   input |-> NoInput]
    /\ hist = NoHist

\* values the user enters in the spin box, in and out of its range
SpinEntries == {MinWidth - 1, MinWidth, MaxWidth, MaxWidth + 1}

LoadNext ==
    \/ SetWidth(SpinEntries, KeyPush)
    \/ QuickSize(KeyPush)
    \/ ToggleFill(KeyPush)
    \/ ToggleHighlighter(KeyPush)
    \/ ToggleEraser(KeyPush)
    \/ MousePress(FirstRow, {"left"}, KeyPush)
    \/ MouseMove(FirstRow, KeyPush)
    \/ MouseRelease(FirstRow, KeyPush)

LoadSpec == LoadInit /\ [][LoadNext]_vars

\* Control and Shift held and let go in any order, between toolbar clicks
\* and pointer sessions.  A key is pressed only while it is up (no key
\* repeat) and released only while it is down.
KeyNext ==
    \/ \E k \in {"Control", "Shift"} \ hist.keys.held : KeyPress({k}, KeyPush)
    \/ \E k \in hist.keys.held : KeyRelease({k}, KeyPush)
    \/ SetTool({"text", "rect"}, KeyPush)
    \/ ToggleEraser(KeyPush)
    \/ MousePress(FirstRow, {"left"}, KeyPush)
    \/ MouseRelease(TwoRows, KeyPush)

KeySpec == Init /\ [][KeyNext]_vars

\* Drawing, erasing and clearing with every tool: the settings file names
\* the tool, the width and the highlighter flag.
EraseFiles ==
    {[kind |-> "object",
      data |-> [NoData EXCEPT !.tool = JStr(t), !.width = JInt(wd),
                              !.highlight = JBool(h)]] :
        t \in Tools, wd \in {DefaultWidth, 10}, h \in BOOLEAN}

EraseInit ==
    /\ \E f \in EraseFiles :
          /\ self = Construct(f)
          /\ ev = [h |-> "_load_settings", arg |-> <<f>>, n |-> 0,
                   input |-> NoInput]
    /\ hist = NoHist

EraseNext ==
    \/ MousePress(FirstRow, {"left"}, MaxPush)
    \/ MouseMove(TwoRows, MaxPush)
    \/ MouseRelease(TwoRows, MaxPush)
    \/ ToggleEraser(MaxPush)
    \/ KeyPress({"C"}, MaxPush)
    \/ ClearButton(MaxPush)

EraseSpec == EraseInit /\ [][EraseNext]_vars

\* Ink of every tool, plain and highlighted, outlined and filled, one
\* session or text entry over the other: the settings file names the tool,
\* the width and the fill and highlighter flags.
InkFiles ==
    {[kind |-> "object",
      data |-> [NoData EXCEPT !.tool = JStr(t), !.width = JInt(wd),
                              !.fill = JBool(f), !.highlight = JBool(h)]] :
        t \in Tools, wd \in {DefaultWidth, 10}, f \in BOOLEAN, h \in BOOLEAN}

InkInit ==
    /\ \E f \in InkFiles :
          /\ self = Construct(f)
          /\ ev = [h |-> "_load_settings", arg |-> <<f>>, n |-> 0,
                   input |-> NoInput]
    /\ hist = NoHist

InkNext ==
    \/ MousePress(FirstRow, {"left"}, MaxPush)
    \/ MouseMove(TwoRows, MaxPush)
    \/ MouseRelease(TwoRows, MaxPush)
    \/ InputKey({"a"}, MaxPush)

InkSpec == InkInit /\ [][InkNext]_vars

\* Exports at any moment: before, during and after pen and highlighter
\* sessions, and with a text entry open.
SaveNext ==
    \/ SaveButton(KeyPush)
    \/ KeyPress({"S"}, KeyPush)
    \/ MousePress(FirstRow, {"left"}, KeyPush)
    \/ MouseMove(FirstRow, KeyPush)
    \/ MouseRelease(TwoRows, KeyPush)
    \/ SetTool({"pen", "text"}, KeyPush)
    \/ ToggleHighlighter(KeyPush)

SaveSpec == Init /\ [][SaveNext]_vars

\* Every handler that could touch the history: pointer sessions, text
\* entries, clear, export, and the toolbar's tool, width and flag controls.
StackNext ==
    \/ MousePress(FirstRow, {"left"}, KeyPush)
    \/ MouseMove(FirstRow, KeyPush)
    \/ MouseRelease(FirstRow, KeyPush)
    \/ InputKey({"a"}, KeyPush)
    \/ SetTool({"pen", "text"}, KeyPush)
    \/ SetWidth({10}, KeyPush)
    \/ ToggleFill(KeyPush)
    \/ ToggleHighlighter(KeyPush)
    \/ ToggleEraser(KeyPush)
    \/ SaveButton(KeyPush)
    \/ ClearButton(KeyPush)

StackSpec == Init /\ [][StackNext]_vars

\* Pointer sessions with the toolbar's highlighter, eraser and tool buttons
\* clicked at any moment, in the middle of a session as well.  The button
\* goes down only while it is up.
LayerNext ==
    \/ ~self.drawing /\ MousePress(FirstRow, {"left"}, MaxPush)
    \/ MouseMove(FirstRow, MaxPush)
    \/ MouseRelease(FirstRow, MaxPush)
    \/ ToggleHighlighter(MaxPush)
    \/ ToggleEraser(MaxPush)
    \/ SetTool({"pen", "rect"}, MaxPush)

LayerSpec == Init /\ [][LayerNext]_vars

\* Text entries with the width, quick-size, font and colour controls used
\* while an entry is open.
FontNext ==
    \/ SetTool({"text"}, KeyPush)
    \/ MousePress(TwoRows, {"left"}, KeyPush)
    \/ InputKey({"a"}, KeyPush)
    \/ SetWidth({10, 2 * DefaultFontSize}, KeyPush)
    \/ QuickSize(KeyPush)
    \/ SelectColor({"#0000ff"}, KeyPush)
    \/ SelectFont({[family |-> "Serif", size |-> 12]}, KeyPush)

FontSpec == Init /\ [][FontNext]_vars

\* the window system asks for a repaint (update() or an expose)
PaintEvent(limit) == Do("paintEvent", <<>>, paintEvent(self), limit)

\* rendering in every state of a session: idle, pen and highlighter
\* sessions, shape sessions, and the eraser's previews
RenderNext ==
    \/ MousePress(FirstRow, {"left"}, KeyPush)
    \/ MouseMove(TwoRows, KeyPush)
    \/ MouseRelease(FirstRow, KeyPush)
    \/ SetTool({"pen", "line", "arrow"}, KeyPush)
    \/ ToggleHighlighter(KeyPush)
    \/ ToggleEraser(KeyPush)
    \/ PaintEvent(KeyPush)

RenderSpec == Init /\ [][RenderNext]_vars

\* Arrows from a start point along offsets of integral length, at widths
\* set through the spin box.
ArrowStarts  == {[x |-> 0, y |-> 0], [x |-> 7, y |-> 60]}
ArrowOffsets == {[x |-> 100, y |-> 0], [x |-> 0, y |-> 20], [x |-> -30, y |-> 0],
                 [x |-> 0, y |-> -5], [x |-> 3, y |-> 4], [x |-> 30, y |-> 40],
                 [x |-> -6, y |-> 8], [x |-> 12, y |-> -5], [x |-> 1, y |-> 0],
                 [x |-> 0, y |-> 0]}
ArrowWidths  == {MinWidth, DefaultWidth, 5, 6, 10, MaxWidth}

\* the painter is handed an arrow: ev.geo is what draw_arrow makes of it
DrawArrow ==
    \E s \in ArrowStarts, d \in ArrowOffsets :
        LET e == [x |-> s.x + d.x, y |-> s.y + d.y]
        IN  /\ self.running
            /\ ev' = [h |-> "draw_arrow", arg |-> <<s, e, self.pen_width>>,
                      n |-> Len(self.undo_stack), input |-> self.text_input,
                      geo |-> draw_arrow(self, s, e)]
            /\ UNCHANGED <<self, hist>>

ArrowNext ==
    \/ SetWidth(ArrowWidths, MaxPush)
    \/ DrawArrow

ArrowSpec == Init /\ [][ArrowNext]_vars

\* ------------------------------------------------------------------------
\*  Properties
\* ------------------------------------------------------------------------
\* the event was a call of undo (toolbar button or Ctrl+Z)
IsUndo(e) ==
    e.h = "undo" \/ (e.h = "keyPressEvent" /\ e.arg = <<"Z", TRUE>>)

\* the event belongs to a pointer session (dab, layer merge, shape finalize)
IsSessionOp(e) == e.h \in {"mouseMoveEvent", "mouseReleaseEvent"}

TopPx(w) == w.heap[Last(w.undo_stack)]

\* C1: push-before-mutate.  Whenever an operation other than undo changes
\* the canvas pixels, the top of the history stack is a snapshot of the
\* canvas as it was before the operation began (before the session began
\* for a dab, a layer merge or a shape finalize; before the event for a
\* text commit or clear-all), so that one undo restores that canvas.
C1_PushBeforeMutate ==
    [][(CanvasPx(self') # CanvasPx(self) /\ ~IsUndo(ev'))
         => /\ self'.undo_stack # <<>>
            /\ TopPx(self') = IF IsSessionOp(ev') THEN hist.base
                              ELSE CanvasPx(self)]_vars

\* C2: from an empty history, after N complete pointer-down/pointer-up
\* operations the stack holds min(N, 50) snapshots (one more while the
\* next session is in progress, its push being made at pointer-down).
C2_StackSizeMinNCap ==
    hist.undos = 0 =>
        Len(self.undo_stack) =
            Min(hist.ops + (IF self.drawing THEN 1 ELSE 0), MAX_UNDO_STEPS)

C2_Witness ==
    /\ hist.undos = 0
    /\ ~self.drawing
    /\ hist.ops = MAX_UNDO_STEPS + 1
    /\ Len(self.undo_stack) = MAX_UNDO_STEPS

\* C3 as claimed: after N operations, the k-th undo shows the canvas as it
\* was before operation N - k + 1, for every k up to N, so that N undos end
\* at the canvas before the first operation.
C3_UndoStepsBackToFirst ==
    (hist.undos >= 1 /\ ~self.drawing) =>
        CanvasPx(self) = hist.pre[hist.ops - hist.undos + 1]

\* C3 as amended: the k-th undo shows the canvas as it was before operation
\* N - k + 1 for k up to min(N, 50); undos beyond that find the stack empty
\* and leave the canvas as it was before operation N - 49.
C3_UndoStepsBackWithinCapacity ==
    (hist.undos >= 1 /\ ~self.drawing) =>
        CanvasPx(self) =
            hist.pre[hist.ops - Min(hist.undos, MAX_UNDO_STEPS) + 1]

C3_Witness ==
    /\ hist.ops = MAX_UNDO_STEPS
    /\ hist.undos = MAX_UNDO_STEPS
    /\ self.undo_stack = <<>>
    /\ CanvasPx(self) = hist.pre[1]
    /\ hist.pre[1] # hist.pre[MAX_UNDO_STEPS]

\* C4: the stack never holds more than MAX_UNDO_STEPS snapshots, and it
\* holds the most recent pushes that were not popped, in push order: a push
\* onto a full stack has dropped the oldest entry.
C4_BoundedOldestEvicted ==
    LET n      == Len(hist.pre)
        kept   == Min(n, MAX_UNDO_STEPS)
        popped == Min(hist.undos, kept)
    IN  /\ Len(self.undo_stack) <= MAX_UNDO_STEPS
        /\ StackPx(self) = SubSeq(hist.pre, n - kept + 1, n - popped)

C4_Witness ==
    /\ Len(hist.pre) = MAX_UNDO_STEPS + 1
    /\ Len(self.undo_stack) = MAX_UNDO_STEPS
    /\ hist.pre[1] # hist.pre[2]
    /\ TopPx(self) = hist.pre[MAX_UNDO_STEPS + 1]

\* C5: undo with an empty history stack changes nothing: canvas, stack,
\* session, tool state and the running program stay as they are.
C5_UndoEmptyNoOp ==
    [][(IsUndo(ev') /\ self.undo_stack = <<>>) => self' = self]_vars

C5_Witness ==
    /\ IsUndo(ev)
    /\ ev.n = 0
    /\ self.running
    /\ CanvasPx(self) # Transparent

\* C6: no snapshot of the history stack is the same surface as the canvas
\* or as another snapshot, and no event changes the pixels of a snapshot
\* that stays on the stack.
NoAlias(w) ==
    /\ w.canvas \notin Range(w.undo_stack)
    /\ \A i, j \in 1..Len(w.undo_stack) :
          i # j => w.undo_stack[i] # w.undo_stack[j]

C6_CopyOnPush ==
    /\ [](NoAlias(self))
    /\ [][\A id \in Range(self.undo_stack) \cap Range(self'.undo_stack) :
            self'.heap[id] = self.heap[id]]_vars

C6_Witness ==
    /\ Len(self.undo_stack) = 2
    /\ ev.h = "mouseReleaseEvent"
    /\ CanvasPx(self) # TopPx(self)
    /\ StackPx(self)[1] # StackPx(self)[2]

\* the event confirmed the pending text entry (Ctrl+Enter in the entry, or
\* a pointer-down below the toolbar)
IsConfirm(e) ==
    /\ e.input.open
    /\ \/ e.h = "input_enter"
       \/ e.h = "mousePressEvent" /\ ~InToolbar(e.arg[1])

\* the event was an Escape key press, in the entry or in the main widget
IsEscape(e) ==
    \/ e.h = "input_escape"
    \/ e.h = "keyPressEvent" /\ e.arg[1] = "Escape"

\* C7: confirming a pending entry whose trimmed text is not empty makes
\* exactly one push, of the canvas as it was before the commit, then draws
\* the text opaque on the canvas, leaves no entry pending, and an undo right
\* after gives the pre-commit canvas back.
C7_CommitPushesThenDraws ==
    [][(IsConfirm(ev') /\ Trim(self.text_input.text) # <<>>)
         => LET rows == TextRows(Trim(self.text_input.text),
                                 self.text_input.pos,
                                 LineHeight(self.text_input.font))
            IN  /\ self'.npush = self.npush + 1
                /\ Len(self'.undo_stack) =
                      Min(Len(self.undo_stack) + 1, MAX_UNDO_STEPS)
                /\ TopPx(self') = CanvasPx(self)
                /\ \A q \in Ys :
                      CanvasPx(self')[q] =
                          IF q \in rows THEN OpaqueAlpha ELSE CanvasPx(self)[q]
                /\ ~self'.text_input.open
                /\ CanvasPx(undo(self')) = CanvasPx(self)]_vars

C7_Witness ==
    /\ IsConfirm(ev)
    /\ Trim(ev.input.text) # <<>>
    /\ ev.n = 1
    /\ Len(self.undo_stack) = 2
    /\ TopPx(self) # Transparent
    /\ CanvasPx(self) # TopPx(self)

\* C8: confirming a pending entry whose text is empty after trimming only
\* discards the entry: canvas, history stack and everything else stay.
C8_EmptyCommitNoOp ==
    [][(IsConfirm(ev') /\ Trim(self.text_input.text) = <<>>)
         => self' = [self EXCEPT !.text_input = NoInput]]_vars

C8_Witness ==
    /\ IsConfirm(ev)
    /\ ev.input.text # <<>>
    /\ Trim(ev.input.text) = <<>>
    /\ ~self.text_input.open
    /\ CanvasPx(self) # Transparent
    /\ Len(self.undo_stack) = ev.n

\* C9: Escape with an entry pending only discards the entry, whatever was
\* typed, and the program keeps running; Escape with no entry pending
\* ends the program.
C9_EscapeCancelsOrExits ==
    [][IsEscape(ev')
         => IF self.text_input.open
            THEN self' = [self EXCEPT !.text_input = NoInput]
            ELSE self' = [self EXCEPT !.running = FALSE]]_vars

C9_Witness ==
    /\ IsEscape(ev)
    /\ ev.input.open
    /\ Trim(ev.input.text) # <<>>
    /\ ~self.text_input.open
    /\ self.running

\* C10: a pointer-down in the toolbar band (y <= TOOLBAR_HEIGHT) changes
\* nothing, in any state: no session, no push, no layer, the pending text
\* entry neither opened nor committed, anchor and current point as before.
C10_ToolbarPressIgnored ==
    [][(ev'.h = "mousePressEvent" /\ ev'.arg[1].y <= TOOLBAR_HEIGHT)
         => self' = self]_vars

C10_Witness ==
    /\ ev.h = "mousePressEvent"
    /\ ev.arg[1].y = TOOLBAR_HEIGHT
    /\ ev.arg[2] = "left"
    /\ self.text_input.open
    /\ Trim(self.text_input.text) # <<>>

\* C11: a pointer-down below the toolbar band while a text entry is pending
\* commits the entry and does nothing else: afterwards no entry is pending,
\* no session is active (drawing is false), no transient layer exists, the
\* anchor and current point are as before, and the history has grown by one
\* exactly when the committed text, trimmed, was not empty.
C11_PressCommitsPendingOnly ==
    [][(ev'.h = "mousePressEvent" /\ ~InToolbar(ev'.arg[1])
            /\ self.text_input.open)
         => /\ ~self'.text_input.open
            /\ ~self'.drawing
            /\ self'.hl_layer = None /\ self'.pen_layer = None
            /\ self'.start_point = self.start_point
            /\ self'.end_point = self.end_point
            /\ self'.npush = self.npush
                  + (IF Trim(self.text_input.text) # <<>> THEN 1 ELSE 0)]_vars

\* C12: with the text tool current and no entry pending, a left pointer-down
\* below the toolbar band opens a text entry at the click point and starts
\* no stroke session (no history push, no path, no transient layer, the
\* drawing flag as it was), whatever the eraser, highlighter and fill flags.
C12_TextPressOpensEntryOnly ==
    [][(ev'.h = "mousePressEvent" /\ ~InToolbar(ev'.arg[1])
            /\ ev'.arg[2] = "left" /\ self.current_tool = "text"
            /\ ~self.text_input.open)
         => /\ self'.text_input.open
            /\ self'.text_input.pos = ev'.arg[1]
            /\ self'.npush = self.npush
            /\ self'.undo_stack = self.undo_stack
            /\ self'.path = self.path
            /\ self'.hl_layer = self.hl_layer
            /\ self'.pen_layer = self.pen_layer
            /\ self'.drawing = self.drawing]_vars

\* C13: a pointer-up with no session active changes nothing: canvas,
\* history stack, transient layers, anchor and current point, tool state.
C13_ReleaseWithoutSessionNoOp ==
    [][(ev'.h = "mouseReleaseEvent" /\ ~self.drawing) => self' = self]_vars

\* the pointer-up left the current point alone, so it found no session; a
\* snapshot is stored, and the tool state is not the initial one
C13_Witness ==
    /\ ev.h = "mouseReleaseEvent"
    /\ ~self.drawing
    /\ self.end_point # ev.arg[1]
    /\ self.undo_stack # <<>>
    /\ self.eraser
    /\ self.current_tool # "pen"

\* C14: a Control press with no session active, followed by the Control
\* release with no other event in between, leaves the eraser flag and the
\* current tool as they were before the press, for every tool state the
\* press finds (the eraser toggled on by the user included).
C14_ControlIsTemporary ==
    LET ks == hist.keys
    IN  (ks.held = {} /\ ks.n = 2 /\ ks.ctrlOnly /\ ~ks.other)
            => /\ self.eraser = ks.eraser0
               /\ self.current_tool = ks.tool0

\* C15: once Control and Shift, pressed and released in any order with no
\* session active and no other event in between, are both up again, the
\* current tool and the eraser flag are what they were before the first
\* press.  (Episodes of Control alone are C14's; here Shift takes part.)
C15_ControlShiftRestore ==
    LET ks == hist.keys
    IN  (ks.held = {} /\ ks.n >= 2 /\ ~ks.ctrlOnly /\ ~ks.other)
            => /\ self.eraser = ks.eraser0
               /\ self.current_tool = ks.tool0

ValidTool(f)  == f.kind = "object" /\ f.data.tool.t = "str"
                 /\ f.data.tool.s \in Tools
ValidWidth(f) == f.kind = "object" /\ f.data.width.t = "int"
                 /\ f.data.width.n \in 1..120
ValidFlag(f, j) == f.kind = "object" /\ j.t = "bool"

\* C17: whatever the settings file holds (no file, no JSON, no object,
\* missing, mistyped or out-of-range values), the widget starts, with a
\* tool among the six, a width within 1..120, the eraser off, and the
\* default value (pen, 4, fill off, highlighter off) in every field that
\* the file does not name with a valid value.
C17_LoadFallsBackToDefaults ==
    ev.h = "_load_settings" =>
        LET f == ev.arg[1]
        IN  /\ self.running
            /\ self.current_tool \in Tools
            /\ self.pen_width \in 1..120
            /\ ~self.eraser
            /\ ~ValidTool(f) => self.current_tool = "pen"
            /\ ~ValidWidth(f) => self.pen_width = DefaultWidth
            /\ ~ValidFlag(f, f.data.fill) => ~self.fill_enabled
            /\ ~ValidFlag(f, f.data.highlight) => ~self.highlighter

\* the event was the C key
IsKeyC(e) == e.h = "keyPressEvent" /\ e.arg[1] = "C"

\* C18: clear-all (the toolbar button, or the C key with no text entry
\* pending) pushes a snapshot of the canvas as it is, then makes every
\* pixel of the canvas transparent, and an undo right after gives the
\* pre-clear canvas back; the C key with an entry pending does nothing.
C18_ClearPushesThenBlanks ==
    [][/\ (ev'.h = "clear_canvas" \/ (IsKeyC(ev') /\ ~self.text_input.open))
            => /\ self'.npush = self.npush + 1
               /\ Len(self'.undo_stack) =
                     Min(Len(self.undo_stack) + 1, MAX_UNDO_STEPS)
               /\ TopPx(self') = CanvasPx(self)
               /\ \A q \in Ys : CanvasPx(self')[q] = 0
               /\ CanvasPx(undo(self')) = CanvasPx(self)
               /\ undo(self').undo_stack = self.undo_stack
       /\ (IsKeyC(ev') /\ self.text_input.open) => self' = self]_vars

C18_Witness ==
    /\ ev.h = "clear_canvas" \/ (IsKeyC(ev) /\ ~ev.input.open)
    /\ Len(self.undo_stack) = ev.n + 1
    /\ ev.n = 1
    /\ TopPx(self) # Transparent
    /\ CanvasPx(self) = Transparent

\* rows between the rows of a and b, r rows beyond included
Between(q, a, b, r) ==
    /\ (IF a.y <= b.y THEN a.y ELSE b.y) - r <= q
    /\ q <= (IF a.y <= b.y THEN b.y ELSE a.y) + r

\* C19: an eraser operation leaves every pixel it covers fully transparent,
\* whatever was there, and every other pixel as it was.  The operations: the
\* dab of radius pen_width \div 2 at the pointer on a pointer-move (eraser
\* on, tool not a shape tool), and on pointer-up with the eraser on the
\* rectangle or ellipse region, the line stroke of width pen_width, the
\* arrow from anchor to pointer.
C19_EraserClearsCoveredOnly ==
    [][/\ (ev'.h = "mouseMoveEvent" /\ self.drawing /\ self.eraser
              /\ self.current_tool \notin ShapeTools)
            => \A q \in Ys :
                 CanvasPx(self')[q] =
                    IF Between(q, ev'.arg[1], ev'.arg[1], self.pen_width \div 2)
                    THEN 0 ELSE CanvasPx(self)[q]
       /\ (ev'.h = "mouseReleaseEvent" /\ self.drawing /\ self.eraser
              /\ self.current_tool \in ShapeTools)
            => LET s == self.start_point
                   e == ev'.arg[1]
                   t == self.current_tool
                   r == IF t = "line" THEN self.pen_width \div 2 ELSE 0
               IN  \A q \in Ys :
                     CanvasPx(self')[q] =
                        IF Between(q, s, e, r) /\ (t = "arrow" => s # e)
                        THEN 0 ELSE CanvasPx(self)[q]]_vars

\* a dab of the pen eraser took highlighter ink off one row and left the
\* ink of another row alone
C19_Witness ==
    /\ ev.h = "mouseMoveEvent"
    /\ self.drawing /\ self.eraser
    /\ self.current_tool \notin ShapeTools
    /\ self.undo_stack # <<>>
    /\ \E q, p \in Ys :
          /\ TopPx(self)[q] \notin {0, OpaqueAlpha}
          /\ CanvasPx(self)[q] = 0
          /\ CanvasPx(self)[p] # 0

\* squared length and dot product of vectors given by their end points
Dist2(a, b) == (a.x - b.x) * (a.x - b.x) + (a.y - b.y) * (a.y - b.y)
\* a lies at distance k * L from b, as k times a vector of length L
Offset(a, b, k, L) ==
    /\ (a.x - b.x) % k = 0
    /\ (a.y - b.y) % k = 0
    /\ ((a.x - b.x) \div k) * ((a.x - b.x) \div k)
          + ((a.y - b.y) \div k) * ((a.y - b.y) \div k) = L * L
Dot(a, b, c, d) == (a.x - b.x) * (d.x - c.x) + (a.y - b.y) * (d.y - c.y)
Mid(a, b, m) == a.x + b.x = 2 * m.x /\ a.y + b.y = 2 * m.y

\* C20: for start # end and a width w, the arrow's head length is
\* max(3w, 15) and its head half-width max(2.5w, 12); the apex is the end
\* point itself; the two base vertices of the head lie at the junction,
\* head half-width to either side, perpendicular to the direction; the body
\* vertices are symmetric about the axis, w/2 to either side at the start
\* and w to either side at the junction.  From (0,0) to (100,0) at width 4:
\* head length 15, half-width 12, junction at x = 85.  (Coordinates are
\* times g.scale = 2 * length, so a distance d is d * 2 * length here;
\* where the junction lies on the axis when the arrow is shorter than its
\* head is not part of this claim.)
C20_ArrowHeadGeometry ==
    (ev.h = "draw_arrow" /\ ev.arg[1] # ev.arg[2]) =>
        LET s  == ev.arg[1]
            e  == ev.arg[2]
            w  == ev.arg[3]
            g  == ev.geo
            K  == g.scale
            ks == [x |-> K * s.x, y |-> K * s.y]
            ke == [x |-> K * e.x, y |-> K * e.y]
            j  == g.body_end
            L  == g.length
        IN  /\ g.drawn
            /\ L * L = Dist2(s, e)
            /\ g.head_len = (IF 3 * w >= 15 THEN 3 * w ELSE 15)
            /\ g.head_width2 = (IF 5 * w >= 24 THEN 5 * w ELSE 24)
            /\ L >= g.head_len => Offset(ke, j, 2 * g.head_len, L)
            /\ g.h1 = ke
            /\ Mid(g.h2, g.h3, j)
            /\ Dot(g.h2, j, ks, ke) = 0
            /\ Offset(g.h2, j, g.head_width2, L)
            /\ Mid(g.p1, g.p2, ks)
            /\ Dot(g.p1, ks, ks, ke) = 0
            /\ Offset(g.p1, ks, w, L)
            /\ Mid(g.p3, g.p4, j)
            /\ Dot(g.p4, j, ks, ke) = 0
            /\ Offset(g.p4, j, 2 * w, L)
            /\ (s = [x |-> 0, y |-> 0] /\ e = [x |-> 100, y |-> 0] /\ w = 4)
                  => /\ g.head_len = 15
                     /\ g.head_width2 = 2 * 12
                     /\ j = [x |-> K * 85, y |-> 0]

C20_Witness ==
    /\ ev.h = "draw_arrow"
    /\ ev.arg = <<[x |-> 0, y |-> 0], [x |-> 100, y |-> 0], 4>>
    /\ ev.geo.drawn
    /\ ev.geo.body_end = [x |-> 200 * 85, y |-> 0]

\* the pointer-up that ends a session in progress
IsFinalize(e) == e.h = "mouseReleaseEvent" /\ self.drawing

\* C21: with highlighter and fill on, the eraser off and the rectangle or
\* ellipse tool, the pointer-up draws the shape without outline and with an
\* alpha-128 brush: every pixel from start to end is blended onto the canvas
\* once at alpha 128, no pixel a second time, and the pixels about the edge
\* where the outline would lie are left alone.
C21_FilledHighlightNoDoubleBlend ==
    [][(/\ IsFinalize(ev')
        /\ self.highlighter /\ self.fill_enabled /\ ~self.eraser
        /\ self.current_tool \in {"rect", "ellipse"})
       => /\ get_pen(self, FALSE) = 0
          /\ get_brush(self) = 128
          /\ \A q \in Ys :
                CanvasPx(self')[q] =
                    IF Between(q, self.start_point, ev'.arg[1], 0)
                    THEN Over(128, CanvasPx(self)[q])
                    ELSE CanvasPx(self)[q]]_vars

\* a filled highlighted shape of width 10 drawn over an earlier one: the
\* row both cover holds two blends, the row the second alone covers one,
\* and the row within the outline's reach none
C21_Witness ==
    /\ ev.h = "mouseReleaseEvent"
    /\ self.highlighter /\ self.fill_enabled /\ ~self.eraser
    /\ self.current_tool \in {"rect", "ellipse"}
    /\ self.pen_width = 10
    /\ ~self.drawing
    /\ Len(self.undo_stack) = 2
    /\ CanvasPx(self)[TOOLBAR_HEIGHT] = 0
    /\ CanvasPx(self)[TOOLBAR_HEIGHT + RowGap] = Over(128, 128)
    /\ CanvasPx(self)[TOOLBAR_HEIGHT + 2 * RowGap] = 128

\* C22: with the highlighter on, the line tool and the eraser off, the
\* pointer-up blends every pixel of the line, body and both round caps and
\* where they overlap, onto the canvas once with alpha 128: the pixel becomes
\* Over(128, old), never a second blend on top, and the other pixels stay.
C22_HighlightedLineFlat ==
    [][(/\ IsFinalize(ev')
        /\ self.highlighter /\ ~self.eraser
        /\ self.current_tool = "line")
       => \A q \in Ys :
             CanvasPx(self')[q] =
                 IF Between(q, self.start_point, ev'.arg[1], self.pen_width \div 2)
                 THEN Over(128, CanvasPx(self)[q])
                 ELSE CanvasPx(self)[q]]_vars

\* a highlighted line of width 4 over two rows, drawn over an earlier one
\* on the first of them
C22_Witness ==
    /\ ev.h = "mouseReleaseEvent"
    /\ self.highlighter /\ ~self.eraser
    /\ self.current_tool = "line"
    /\ self.pen_width = 4
    /\ ~self.drawing
    /\ Len(self.undo_stack) = 2
    /\ CanvasPx(self)[TOOLBAR_HEIGHT] = 0
    /\ CanvasPx(self)[TOOLBAR_HEIGHT + RowGap] = Over(128, 128)
    /\ CanvasPx(self)[TOOLBAR_HEIGHT + 2 * RowGap] = 128

\* the event was an export: the save button or Ctrl+S
IsExport(e) ==
    \/ e.h = "save_snapshot"
    \/ e.h = "keyPressEvent" /\ e.arg[1] = "S" /\ e.arg[2]

\* C23: an export, whether or not the PNG file could be written, leaves the
\* canvas, the history stack, the transient layers, the session state and
\* the tool state as they were, and the program keeps running.
C23_ExportReadOnly ==
    [][IsExport(ev') =>
        /\ self'.running
        /\ CanvasPx(self') = CanvasPx(self)
        /\ StackPx(self') = StackPx(self)
        /\ self' = self]_vars

\* a failed Ctrl+S in the middle of a highlighter session, the layer inked
C23_Witness ==
    /\ ev.h = "keyPressEvent" /\ ev.arg[1] = "S" /\ ev.arg[2] /\ ~ev.arg[3]
    /\ self.running
    /\ self.drawing
    /\ self.hl_layer # None
    /\ self.heap[self.hl_layer] # Transparent
    /\ Len(self.undo_stack) = 1

\* handlers that only change the tool state
ToolMutators ==
    {"set_tool", "set_width", "toggle_fill", "toggle_highlighter",
     "toggle_eraser"}

\* the event confirmed a text entry that holds more than blanks
IsTextCommit(e) ==
    /\ e.h \in {"mousePressEvent", "input_enter"}
    /\ e.input.open
    /\ Trim(e.input.text) # <<>>

\* C24: the history stack receives a snapshot only at a pointer-down that
\* starts a session, at clear-all and at the commit of a non-empty text, and
\* then exactly one; pointer-move, pointer-up, export and the tool-state
\* mutators leave the stack as it is, so a session adds one snapshot
\* however many pointer-moves it has.
C24_PushOnlyAtStartClearCommit ==
    [][LET e == ev'
       IN  /\ self'.npush > self.npush =>
                /\ self'.npush = self.npush + 1
                /\ \/ e.h = "mousePressEvent" /\ ~e.input.open /\ self'.drawing
                   \/ e.h = "clear_canvas"
                   \/ IsKeyC(e)
                   \/ IsTextCommit(e)
           /\ (e.h = "mousePressEvent" /\ ~self.drawing /\ self'.drawing)
                => self'.npush = self.npush + 1
           /\ (\/ e.h \in {"mouseMoveEvent", "mouseReleaseEvent"}
               \/ IsExport(e)
               \/ e.h \in ToolMutators)
                => /\ self'.npush = self.npush
                   /\ self'.undo_stack = self.undo_stack
                   /\ StackPx(self') = StackPx(self)]_vars

\* a pointer-move of a highlighter session that extended the path: the
\* stack holds the one snapshot taken at the pointer-down
C24_Witness ==
    /\ ev.h = "mouseMoveEvent"
    /\ self.drawing
    /\ self.hl_layer # None
    /\ Len(self.path) = 2
    /\ self.npush = 1
    /\ Len(self.undo_stack) = 1

\* the event was Control or Shift going down or up
IsModifierKey(e) ==
    /\ e.h \in {"keyPressEvent", "keyReleaseEvent"}
    /\ e.arg[1] \in {"Control", "Shift"}

\* C25: while a session is active no Control or Shift event, press or
\* release, changes the current tool or the eraser flag.
C25_ModifierKeysInertInSession ==
    [][(self.drawing /\ IsModifierKey(ev'))
       => /\ self'.current_tool = self.current_tool
          /\ self'.eraser = self.eraser]_vars

\* C26: in every reachable state at most one transient layer exists: the
\* pen layer and the highlight layer never exist together.
C26_LayersMutuallyExclusive ==
    ~(self.pen_layer # None /\ self.hl_layer # None)

\* C27: after any pointer-up no session is active and neither transient
\* layer exists, the layer allocated at the pointer-down having been
\* composited onto the canvas; and in every state without an active session
\* no transient layer exists.
C27_PointerUpDiscardsLayer ==
    [][/\ ev'.h = "mouseReleaseEvent" =>
            /\ ~self'.drawing
            /\ self'.pen_layer = None
            /\ self'.hl_layer = None
            /\ \A layer \in {self.pen_layer, self.hl_layer} \ {None} :
                  self.drawing =>
                    CanvasPx(self') = Composite(CanvasPx(self), self.heap[layer])
       /\ ~self'.drawing =>
            /\ self'.pen_layer = None
            /\ self'.hl_layer = None]_vars

\* C28: a pointer-move always records the cursor position.  With no session
\* active it changes nothing else; in a rectangle, ellipse, line or arrow
\* session, eraser on or off, it records the current point and no more; in a
\* pen session without eraser it changes, beyond the current point, only the
\* path and the pixels of the transient layers.  The canvas pixels change
\* only when a session is active, the eraser is on and the tool is none of
\* rectangle, ellipse, line, arrow.  The history is never touched.
C28_MoveMutatesCanvasOnlyAsDab ==
    [][ev'.h = "mouseMoveEvent" =>
        LET pos == ev'.arg[1]
        IN  /\ self'.cursor_pos = pos
            /\ StackPx(self') = StackPx(self)
            /\ ~self.drawing => self' = [self EXCEPT !.cursor_pos = pos]
            /\ (self.drawing /\ self.current_tool \in ShapeTools)
                 => self' = [self EXCEPT !.cursor_pos = pos, !.end_point = pos]
            /\ (self.drawing /\ self.current_tool = "pen" /\ ~self.eraser)
                 => /\ [self' EXCEPT !.path = self.path, !.heap = self.heap]
                         = [self EXCEPT !.cursor_pos = pos, !.end_point = pos]
                    /\ DOMAIN self'.heap = DOMAIN self.heap
                    /\ \A i \in DOMAIN self.heap :
                          i \notin {self.pen_layer, self.hl_layer}
                             => self'.heap[i] = self.heap[i]
                    /\ self'.path \in {self.path, Append(self.path, pos)}
            /\ CanvasPx(self') # CanvasPx(self)
                 => /\ self.drawing
                    /\ self.eraser
                    /\ self.current_tool \notin ShapeTools]_vars

\* a pointer-move of an eraser session with the pen tool that wiped ink
C28_Witness ==
    /\ ev.h = "mouseMoveEvent"
    /\ self.drawing
    /\ self.eraser
    /\ self.current_tool = "pen"
    /\ Len(self.undo_stack) = 2
    /\ self.heap[Last(self.undo_stack)][TOOLBAR_HEIGHT + RowGap] > 0
    /\ CanvasPx(self)[TOOLBAR_HEIGHT + RowGap] = 0

\* handlers of the width, quick-size, font and colour controls
StyleMutators == {"set_width", "quick_size", "select_font", "select_color"}

\* C29: a pending text entry keeps the position, the font (family and point
\* size) and the colour it was opened with: a change of stroke width, quick
\* size, font or colour while the entry is open leaves them, and so what
\* the commit rasterizes, as they were.
C29_PendingTextKeepsStyle ==
    [][(self.text_input.open /\ ev'.h \in StyleMutators)
       => /\ self'.text_input.open
          /\ self'.text_input.pos = self.text_input.pos
          /\ self'.text_input.font = self.text_input.font
          /\ self'.text_input.color = self.text_input.color
          /\ CanvasPx(commit_text(self')) = CanvasPx(commit_text(self))]_vars

\* C30: while the highlighter is on and the eraser off, every ink operation
\* that reaches the canvas, the merge of a freehand stroke, a rectangle or
\* ellipse outline and fill, a line, an arrow, a committed text, blends
\* with alpha 128: each pixel it changes becomes Over(128, old).
C30_HighlighterInkIsTranslucent ==
    [][(/\ self.highlighter /\ ~self.eraser
        /\ ev'.h \in {"mousePressEvent", "mouseReleaseEvent",
                      "input_enter", "input_escape"})
       => \A q \in Ys :
             CanvasPx(self')[q] \in
                 {CanvasPx(self)[q], Over(128, CanvasPx(self)[q])}]_vars

\* C31 as stated: a finalized shape's interior is filled with the stroke
\* colour exactly when fill is enabled, the eraser is off and the tool is
\* rectangle, ellipse or arrow; with fill disabled no rectangle, ellipse or
\* arrow is filled; line and pen get no brush.  (For rectangle and ellipse
\* the interior is what the brush paints; for the arrow it is the rows from
\* start to end along its axis.)
C31_FillRule ==
    [][(IsFinalize(ev') /\ ~self.eraser) =>
        LET tool == self.current_tool
            s    == self.start_point
            e    == ev'.arg[1]
        IN  /\ tool \in {"rect", "ellipse"} =>
                 (get_brush(self) # 0 <=> self.fill_enabled)
            /\ tool \in {"line", "pen"} => get_brush(self) = 0
            /\ (tool = "arrow" /\ s # e) =>
                 CanvasPx(self') =
                    InkRows(CanvasPx(self),
                            IF self.fill_enabled THEN Span(s, e, 0) ELSE {},
                            PenAlpha(self))]_vars

\* C31, amended: with the eraser off, a rectangle's or ellipse's interior is
\* filled with the stroke colour exactly when fill is enabled; an arrow is
\* always drawn as filled polygons in the stroke colour (alpha 128 under the
\* highlighter), whether fill is enabled or not; line and pen get no brush.
C31_FillRuleArrowAlwaysFilled ==
    [][(IsFinalize(ev') /\ ~self.eraser) =>
        LET tool == self.current_tool
            s    == self.start_point
            e    == ev'.arg[1]
        IN  /\ tool \in {"rect", "ellipse"} =>
                 (get_brush(self) # 0 <=> self.fill_enabled)
            /\ tool \in {"line", "pen"} => get_brush(self) = 0
            /\ (tool = "arrow" /\ s # e) =>
                 CanvasPx(self') =
                    InkRows(CanvasPx(self), Span(s, e, 0), PenAlpha(self))]_vars

C31_Witness ==
    /\ ev.h = "mouseReleaseEvent"
    /\ self.current_tool = "arrow"
    /\ ~self.fill_enabled /\ ~self.eraser /\ ~self.drawing
    /\ self.npush = 1
    /\ self.start_point # self.end_point
    /\ \A q \in Ys : (CanvasPx(self)[q] # 0) <=>
                        Between(q, self.start_point, self.end_point, 0)

\* the point lying d back from end along the direction from start to end,
\* times the scale 2 * L of the arrow's coordinates (L the arrow's length)
BackFromEnd(s, e, d, L) ==
    [x |-> 2 * L * e.x - 2 * d * (e.x - s.x),
     y |-> 2 * L * e.y - 2 * d * (e.y - s.y)]

\* C32 as stated: for every start # end and every width, the body runs from
\* start to the point lying head-length back from end along the arrow's
\* direction, the head's base is at that same point, also when the arrow is
\* shorter than its head; an arrow with start = end draws nothing.
C32_JunctionHeadLengthBack ==
    ev.h = "draw_arrow" =>
        LET s == ev.arg[1]
            e == ev.arg[2]
            g == ev.geo
        IN  IF s = e THEN ~g.drawn
            ELSE LET j  == BackFromEnd(s, e, g.head_len, g.length)
                     ks == [x |-> g.scale * s.x, y |-> g.scale * s.y]
                 IN  /\ g.drawn
                     /\ g.head_len = HeadLen(ev.arg[3])
                     /\ Mid(g.p1, g.p2, ks)
                     /\ Mid(g.p3, g.p4, j)
                     /\ Mid(g.h2, g.h3, j)

\* C32, amended: the junction of body and head lies head-length back from
\* end when the arrow is at least as long as its head, and at the start
\* point when it is shorter (the body then has no length and the head
\* spans the arrow); the head's base is at the junction; an arrow with
\* start = end draws nothing.
C32_JunctionClamped ==
    ev.h = "draw_arrow" =>
        LET s == ev.arg[1]
            e == ev.arg[2]
            g == ev.geo
        IN  IF s = e THEN ~g.drawn
            ELSE LET ks == [x |-> g.scale * s.x, y |-> g.scale * s.y]
                     j  == IF g.length >= g.head_len
                               THEN BackFromEnd(s, e, g.head_len, g.length)
                               ELSE ks
                 IN  /\ g.drawn
                     /\ g.head_len = HeadLen(ev.arg[3])
                     /\ Mid(g.p1, g.p2, ks)
                     /\ Mid(g.p3, g.p4, j)
                     /\ Mid(g.h2, g.h3, j)

C32_Witness ==
    /\ ev.h = "draw_arrow"
    /\ ev.arg[1] # ev.arg[2]
    /\ ev.geo.drawn
    /\ ev.geo.length < ev.geo.head_len
    /\ ev.geo.body_end = [x |-> ev.geo.scale * ev.arg[1].x,
                          y |-> ev.geo.scale * ev.arg[1].y]

\* C33: a render pass in any state (idle, pen session, shape session, the
\* eraser's preview of a line or arrow) leaves the widget exactly as it was:
\* canvas, history stack, transient layers, session state, tool state and
\* the stroke colour, which the eraser preview swaps for the duration of
\* the pass.
C33_RenderLeavesStateAlone ==
    [][ev'.h = "paintEvent" =>
          /\ self' = self
          /\ self'.pen_color = self.pen_color
          /\ CanvasPx(self') = CanvasPx(self)
          /\ StackPx(self') = StackPx(self)]_vars

C33_Witness ==
    /\ ev.h = "paintEvent"
    /\ self.drawing /\ self.eraser
    /\ self.current_tool \in {"line", "arrow"}
    /\ self.start_point # self.end_point
    /\ self.pen_color = DefaultColor

\* C34: set_tool(t) makes t the current tool and turns the eraser off,
\* unless the eraser is only forced for the time Control is held, in which
\* case it stays on; and a tool selected while Control or Shift is held is
\* still the current tool after the key is released.
C34_SelectedToolStays ==
    [][/\ ev'.h = "set_tool" =>
            /\ self'.current_tool = ev'.arg[1]
            /\ self'.eraser = (self.eraser /\ self.temp_eraser)
       /\ (/\ ev.h = "set_tool"
           /\ ev'.h = "keyReleaseEvent"
           /\ ev'.arg[1] \in hist.keys.held)
            => self'.current_tool = ev.arg[1]]_vars

====
